---- MODULE Spec2Model ----
(***************************************************************************)
(* Navigation history controller of the Next Order SL storefront (App     *)
(* component): the application-level screen stack navStack, the two        *)
(* exit-guard refs, the popstate handler and the browser session history   *)
(* it drives.  The two variants of the application (src/script.js and      *)
(* src/unnamed/part_000) carry the same navigation code; line numbers in   *)
(* the comments are those of src/unnamed/part_000.                         *)
(*                                                                         *)
(* Every action is one browser task: the event handler, the synchronous    *)
(* React re-render it causes (createRoot, discrete event) and the effects  *)
(* of that render.                                                         *)
(***************************************************************************)
EXTENDS Integers, Sequences, FiniteSets, TLC

\* ------------------------------------------------------------------ bounds
\* Largest number of entries of the browser session history (the entry of
\* the document visited before the page included).
MaxHistory == 5
\* Largest number of history.back() calls queued and not yet traversed.
MaxPending == 1

\* ------------------------------------------------------- input alphabets
TabNames == {"cart"}
AffiliateTabNames == {"products"}
\* product ids of the catalog the page starts with
InitialProducts == {1}
\* address fragments the page can be loaded with
InitialFragments == {"", "#product-1", "#product-7"}

\* ------------------------------------------------------------- NavEntry
\* navState objects: { type: 'home' }, { type: 'tab', value },
\* { type: 'product', id }, { type: 'cms' }, { type: 'affiliate-tab', tab }
NavEntry(type, value, id, tab) == [type |-> type, value |-> value, id |-> id, tab |-> tab]
Home == NavEntry("home", "", 0, "")
Tab(name) == NavEntry("tab", name, 0, "")
Product(id) == NavEntry("product", "", id, "")
Cms == NavEntry("cms", "", 0, "")
AffiliateTab(name) == NavEntry("affiliate-tab", "", 0, name)
\* the null state payload of pushState(null, ...)
NullState == NavEntry("null", "", 0, "")
\* selectedProduct === null
NoProduct == 0

\* ------------------------------------------------------ browser history
\* One entry of the session history: its state payload, the fragment of its
\* URL and whether it belongs to this page (page = FALSE: the document the
\* user visited before).
HistoryEntry(state, frag, page) == [state |-> state, frag |-> frag, page |-> page]

\* window.location.hash: the fragment of the current entry; an empty
\* fragment ("...#") reads as the empty string.
locationHash(h) ==
    LET f == h.entries[h.index].frag IN IF f = "#" THEN "" ELSE f

\* window.location.href, as far as the controller depends on it: the
\* fragment of the current entry's URL.
locationHref(h) == h.entries[h.index].frag

\* history.pushState(state, '', url): drops the forward entries, appends a
\* new entry of this page and moves to it.  No popstate is fired.
pushState(h, state, frag) ==
    [entries |-> Append(SubSeq(h.entries, 1, h.index), HistoryEntry(state, frag, TRUE)),
     index |-> h.index + 1]

\* history.replaceState(state, '', location.href)
replaceState(h, state) ==
    [h EXCEPT !.entries[h.index].state = state]

\* the browser moves delta entries along the session history
traverse(h, delta) == [h EXCEPT !.index = @ + delta]

\* String.prototype.startsWith
startsWith(s, prefix) ==
    Len(s) >= Len(prefix) /\ SubSeq(s, 1, Len(prefix)) = prefix

\* `#product-${id}`
ProductFragment(id) == "#product-" \o ToString(id)

\* ------------------------------------------------------------ variables
VARIABLES
    navStack,                   \* useState([{ type: 'home' }])
    allowExitRef,               \* useRef(false)
    exitConfirmationShownRef,   \* useRef(false)
    showExitConfirmation,       \* useState(false)
    activeTab,                  \* useState('home')
    selectedProduct,            \* useState(null): the id of the product, or NoProduct
    showCMS,                    \* useState(false)
    affiliateActiveTab,         \* useState('home')
    isLoggedIn, isAdmin, isAffiliate,   \* session state
    products,                   \* ids of the catalog
    productsRef, isAdminRef, isAffiliateRef,  \* refs read by the handler
    initialHashChecked,         \* useState(false)
    mounted,                    \* the mount effects have run
    history,                    \* window.history: [entries, index]
    pendingBack,                \* history.back() calls not yet traversed
    loaded,                     \* the browser still shows this page
    listeners,                  \* popstate listeners registered on window
    historyThrows,              \* window.history throws on every call
    last                        \* what the last task did (observation only)

vars == <<navStack, allowExitRef, exitConfirmationShownRef, showExitConfirmation,
          activeTab, selectedProduct, showCMS, affiliateActiveTab,
          isLoggedIn, isAdmin, isAffiliate, products,
          productsRef, isAdminRef, isAffiliateRef, initialHashChecked, mounted,
          history, pendingBack, loaded, listeners, historyThrows, last>>

\* the whole state as one record, the value the handlers below transform
State ==
    [navStack |-> navStack, allowExitRef |-> allowExitRef,
     exitConfirmationShownRef |-> exitConfirmationShownRef,
     showExitConfirmation |-> showExitConfirmation,
     activeTab |-> activeTab, selectedProduct |-> selectedProduct,
     showCMS |-> showCMS, affiliateActiveTab |-> affiliateActiveTab,
     isLoggedIn |-> isLoggedIn, isAdmin |-> isAdmin, isAffiliate |-> isAffiliate,
     products |-> products, productsRef |-> productsRef,
     isAdminRef |-> isAdminRef, isAffiliateRef |-> isAffiliateRef,
     initialHashChecked |-> initialHashChecked, mounted |-> mounted,
     history |-> history, pendingBack |-> pendingBack, loaded |-> loaded,
     listeners |-> listeners, historyThrows |-> historyThrows,
     last |-> last]

Apply(c) ==
    /\ navStack' = c.navStack
    /\ allowExitRef' = c.allowExitRef
    /\ exitConfirmationShownRef' = c.exitConfirmationShownRef
    /\ showExitConfirmation' = c.showExitConfirmation
    /\ activeTab' = c.activeTab
    /\ selectedProduct' = c.selectedProduct
    /\ showCMS' = c.showCMS
    /\ affiliateActiveTab' = c.affiliateActiveTab
    /\ isLoggedIn' = c.isLoggedIn
    /\ isAdmin' = c.isAdmin
    /\ isAffiliate' = c.isAffiliate
    /\ products' = c.products
    /\ productsRef' = c.productsRef
    /\ isAdminRef' = c.isAdminRef
    /\ isAffiliateRef' = c.isAffiliateRef
    /\ initialHashChecked' = c.initialHashChecked
    /\ mounted' = c.mounted
    /\ history' = c.history
    /\ pendingBack' = c.pendingBack
    /\ loaded' = c.loaded
    /\ listeners' = c.listeners
    /\ historyThrows' = c.historyThrows
    /\ last' = c.last

\* Observation of one task: the operation, the branch the popstate handler
\* took, the numbers of trap pushes, of all pushState calls, of NavStack
\* pushes and of history.back() calls, the value of allowExitRef when
\* history.back() was called, the number of times the #product-<id> bootstrap
\* ran past its guard, whether an exception left the task uncaught.
Log(op) ==
    [op |-> op, branch |-> "none", traps |-> 0, pushes |-> 0, navPushes |-> 0,
     backs |-> 0, armedAtBack |-> FALSE, hashChecks |-> 0, uncaught |-> FALSE]

\* a call of window.history threw in an event handler or a listener: nothing
\* catches the exception, the statements after the call are not reached
thrown(c) == [c EXCEPT !.last.uncaught = TRUE]

\* a call of window.history threw during a render or in an effect: the tree
\* has no error boundary, React unmounts the application
renderError(c) == [c EXCEPT !.last.uncaught = TRUE, !.loaded = FALSE]

\* ------------------------------------------------------------- handlers
\* window.history.pushState(null, '', window.location.href): the trap push
trapCurrentPosition(c) ==
    IF c.historyThrows THEN thrown(c)
    ELSE [c EXCEPT !.history = pushState(@, NullState, locationHref(@)),
                   !.last.traps = @ + 1,
                   !.last.pushes = @ + 1]

\* window.history.back(): queues one traversal
historyBack(c) ==
    IF c.historyThrows THEN thrown(c)
    ELSE [c EXCEPT !.pendingBack = @ + 1,
                   !.last.backs = @ + 1,
                   !.last.armedAtBack = c.allowExitRef]

\* slice as slice(1): the oldest element is dropped instead of the newest
slice_dropFirst(stack) == SubSeq(stack, 2, Len(stack))

\* currentStack.slice(0, -1)
slice(stack) == SubSeq(stack, 1, Len(stack) - 1)

\* restoration to a fixed parent: whatever the entry, the home view
restoreView_fixedParent(c, prevState) ==
    [c EXCEPT !.activeTab = "home",
              !.selectedProduct = NoProduct,
              !.showCMS = FALSE]

\* restoration without the fallback for a product that is gone
restoreView_noFallback(c, prevState) ==
    IF prevState.type = "home" THEN
        [c EXCEPT !.activeTab = "home",
                  !.selectedProduct = NoProduct,
                  !.showCMS = FALSE,
                  !.affiliateActiveTab = IF c.isAffiliateRef THEN "home" ELSE @]
    ELSE IF prevState.type = "tab" THEN
        [c EXCEPT !.activeTab = prevState.value,
                  !.selectedProduct = NoProduct,
                  !.showCMS = FALSE]
    ELSE IF prevState.type = "product" THEN
        [c EXCEPT !.selectedProduct = prevState.id]
    ELSE IF prevState.type = "cms" THEN
        IF c.isAdminRef THEN [c EXCEPT !.showCMS = TRUE] ELSE c
    ELSE IF prevState.type = "affiliate-tab" THEN
        IF c.isAffiliateRef THEN [c EXCEPT !.affiliateActiveTab = prevState.tab] ELSE c
    ELSE c

\* the restoration that sends an affiliate to the home tab of the dashboard
\* instead of the tab of the entry
restoreView_affiliateHome(c, prevState) ==
    IF prevState.type = "home" THEN
        [c EXCEPT !.activeTab = "home",
                  !.selectedProduct = NoProduct,
                  !.showCMS = FALSE,
                  !.affiliateActiveTab = IF c.isAffiliateRef THEN "home" ELSE @]
    ELSE IF prevState.type = "tab" THEN
        [c EXCEPT !.activeTab = prevState.value,
                  !.selectedProduct = NoProduct,
                  !.showCMS = FALSE]
    ELSE IF prevState.type = "product" THEN
        IF prevState.id \in c.productsRef
        THEN [c EXCEPT !.selectedProduct = prevState.id]
        ELSE [c EXCEPT !.selectedProduct = NoProduct, !.activeTab = "home"]
    ELSE IF prevState.type = "cms" THEN
        IF c.isAdminRef THEN [c EXCEPT !.showCMS = TRUE] ELSE c
    ELSE IF prevState.type = "affiliate-tab" THEN
        IF c.isAffiliateRef THEN [c EXCEPT !.affiliateActiveTab = "home"] ELSE c
    ELSE c

\* the restoration that leaves the CMS open when it goes back to Home or to
\* a tab
restoreView_keepCms(c, prevState) ==
    IF prevState.type = "home" THEN
        [c EXCEPT !.activeTab = "home",
                  !.selectedProduct = NoProduct,
                  !.affiliateActiveTab = IF c.isAffiliateRef THEN "home" ELSE @]
    ELSE IF prevState.type = "tab" THEN
        [c EXCEPT !.activeTab = prevState.value,
                  !.selectedProduct = NoProduct]
    ELSE IF prevState.type = "product" THEN
        IF prevState.id \in c.productsRef
        THEN [c EXCEPT !.selectedProduct = prevState.id]
        ELSE [c EXCEPT !.selectedProduct = NoProduct, !.activeTab = "home"]
    ELSE IF prevState.type = "cms" THEN
        IF c.isAdminRef THEN [c EXCEPT !.showCMS = TRUE] ELSE c
    ELSE IF prevState.type = "affiliate-tab" THEN
        IF c.isAffiliateRef THEN [c EXCEPT !.affiliateActiveTab = prevState.tab] ELSE c
    ELSE c

\* the restoration of the view of prevState, inside the navStack updater
restoreView(c, prevState) ==
    IF prevState.type = "home" THEN
        [c EXCEPT !.activeTab = "home",
                  !.selectedProduct = NoProduct,
                  !.showCMS = FALSE,
                  !.affiliateActiveTab = IF c.isAffiliateRef THEN "home" ELSE @]
    ELSE IF prevState.type = "tab" THEN
        [c EXCEPT !.activeTab = prevState.value,
                  !.selectedProduct = NoProduct,
                  !.showCMS = FALSE]
    ELSE IF prevState.type = "product" THEN
        IF prevState.id \in c.productsRef
        THEN [c EXCEPT !.selectedProduct = prevState.id]
        ELSE [c EXCEPT !.selectedProduct = NoProduct, !.activeTab = "home"]
    ELSE IF prevState.type = "cms" THEN
        IF c.isAdminRef THEN [c EXCEPT !.showCMS = TRUE] ELSE c
    ELSE IF prevState.type = "affiliate-tab" THEN
        IF c.isAffiliateRef THEN [c EXCEPT !.affiliateActiveTab = prevState.tab] ELSE c
    ELSE c

\* the updater without the trap push at the floor
navStackUpdater_noTrap(c) ==
    IF Len(c.navStack) <= 1 THEN
        [c EXCEPT !.exitConfirmationShownRef = TRUE,
                  !.showExitConfirmation = TRUE,
                  !.last.branch = "confirm"]
    ELSE
        LET newStack == slice(c.navStack)
            prevState == newStack[Len(newStack)]
        IN [restoreView(c, prevState) EXCEPT !.navStack = newStack,
                                             !.last.branch = "pop"]

\* the updater whose floor branch shows the confirmation and pushes the trap
\* but leaves the write of the flag to a later moment
navStackUpdater_lateFlag(c) ==
    IF Len(c.navStack) <= 1 THEN
        trapCurrentPosition(
            [c EXCEPT !.showExitConfirmation = TRUE,
                      !.last.branch = "confirm"])
    ELSE
        LET newStack == slice(c.navStack)
            prevState == newStack[Len(newStack)]
        IN [restoreView(c, prevState) EXCEPT !.navStack = newStack,
                                             !.last.branch = "pop"]

\* setNavStack(currentStack => ...) of the popstate handler
navStackUpdater(c) ==
    IF Len(c.navStack) <= 1 THEN
        LET c1 == trapCurrentPosition(
                      [c EXCEPT !.exitConfirmationShownRef = TRUE,
                                !.showExitConfirmation = TRUE,
                                !.last.branch = "confirm"])
        \* the updater runs in the render: an exception of its pushState is
        \* a render error
        IN IF c1.last.uncaught THEN renderError(c1) ELSE c1
    ELSE
        LET newStack == slice(c.navStack)
            prevState == newStack[Len(newStack)]
        IN [restoreView(c, prevState) EXCEPT !.navStack = newStack,
                                             !.last.branch = "pop"]

\* the listener without the return of its second branch: the implicit cancel
\* goes on to the navStack updater
handlePopState_fallThrough(c) ==
    IF c.allowExitRef THEN
        [c EXCEPT !.allowExitRef = FALSE, !.last.branch = "exit"]
    ELSE IF c.exitConfirmationShownRef THEN
        LET c1 == trapCurrentPosition(
                      [c EXCEPT !.exitConfirmationShownRef = FALSE,
                                !.showExitConfirmation = FALSE])
        IN IF Len(c1.navStack) <= 1
           THEN [c1 EXCEPT !.last.branch = "cancel"]
           ELSE [c1 EXCEPT !.navStack = slice(@), !.last.branch = "cancel"]
    ELSE navStackUpdater(c)

\* the listener that restores the view from event.state when it has one
handlePopState_trustPayload(c) ==
    IF c.allowExitRef THEN
        [c EXCEPT !.allowExitRef = FALSE, !.last.branch = "exit"]
    ELSE IF c.exitConfirmationShownRef THEN
        trapCurrentPosition(
            [c EXCEPT !.exitConfirmationShownRef = FALSE,
                      !.showExitConfirmation = FALSE,
                      !.last.branch = "cancel"])
    ELSE IF Len(c.navStack) <= 1 THEN navStackUpdater(c)
    ELSE
        LET payload == c.history.entries[c.history.index].state
            newStack == slice(c.navStack)
            prevState == IF payload = NullState THEN newStack[Len(newStack)] ELSE payload
        IN [restoreView(c, prevState) EXCEPT !.navStack = newStack,
                                             !.last.branch = "pop"]

\* the listener that takes a notification on the newest entry of the history
\* for a forward navigation and puts the entry's state back on navStack
handlePopState_forwardAppends(c) ==
    IF c.allowExitRef THEN
        [c EXCEPT !.allowExitRef = FALSE, !.last.branch = "exit"]
    ELSE IF c.exitConfirmationShownRef THEN
        trapCurrentPosition(
            [c EXCEPT !.exitConfirmationShownRef = FALSE,
                      !.showExitConfirmation = FALSE,
                      !.last.branch = "cancel"])
    ELSE IF /\ c.history.index = Len(c.history.entries)
            /\ c.history.entries[c.history.index].state # NullState
    THEN LET payload == c.history.entries[c.history.index].state
         IN [restoreView(c, payload) EXCEPT !.navStack = Append(@, payload),
                                            !.last.branch = "forward"]
    ELSE navStackUpdater(c)

\* the listener that lets the armed exit through without disarming it
handlePopState_keepArmed(c) ==
    IF c.allowExitRef THEN
        [c EXCEPT !.last.branch = "exit"]
    ELSE IF c.exitConfirmationShownRef THEN
        trapCurrentPosition(
            [c EXCEPT !.exitConfirmationShownRef = FALSE,
                      !.showExitConfirmation = FALSE,
                      !.last.branch = "cancel"])
    ELSE navStackUpdater(c)

\* the listener whose implicit cancel pushes no trap
handlePopState_cancelNoTrap(c) ==
    IF c.allowExitRef THEN
        [c EXCEPT !.allowExitRef = FALSE, !.last.branch = "exit"]
    ELSE IF c.exitConfirmationShownRef THEN
        [c EXCEPT !.exitConfirmationShownRef = FALSE,
                  !.showExitConfirmation = FALSE,
                  !.last.branch = "cancel"]
    ELSE navStackUpdater(c)

\* the popstate listener
handlePopState(c) ==
    IF c.allowExitRef THEN
        [c EXCEPT !.allowExitRef = FALSE, !.last.branch = "exit"]
    ELSE IF c.exitConfirmationShownRef THEN
        trapCurrentPosition(
            [c EXCEPT !.exitConfirmationShownRef = FALSE,
                      !.showExitConfirmation = FALSE,
                      !.last.branch = "cancel"])
    ELSE navStackUpdater(c)

\* pushNavState whose history entry carries no state
pushNavState_nullPayload(c, navState) ==
    [c EXCEPT !.navStack = Append(@, navState),
              !.history = pushState(@, NullState, locationHref(@)),
              !.last.pushes = @ + 1,
              !.last.navPushes = @ + 1]

\* pushNavState that dismisses an exit confirmation that is showing
pushNavState_closeDialog(c, navState) ==
    [c EXCEPT !.navStack = Append(@, navState),
              !.history = pushState(@, navState, locationHref(@)),
              !.exitConfirmationShownRef = FALSE,
              !.showExitConfirmation = FALSE,
              !.last.pushes = @ + 1,
              !.last.navPushes = @ + 1]

\* pushNavState that skips an entry equal to the one on top of navStack
pushNavState_dedup(c, navState) ==
    IF c.navStack[Len(c.navStack)] = navState THEN c
    ELSE [c EXCEPT !.navStack = Append(@, navState),
                   !.history = pushState(@, navState, locationHref(@)),
                   !.last.pushes = @ + 1,
                   !.last.navPushes = @ + 1]

\* pushNavState(navState)
pushNavState(c, navState) ==
    IF c.historyThrows
    THEN thrown([c EXCEPT !.navStack = Append(@, navState),
                          !.last.navPushes = @ + 1])
    ELSE [c EXCEPT !.navStack = Append(@, navState),
                   !.history = pushState(@, navState, locationHref(@)),
                   !.last.pushes = @ + 1,
                   !.last.navPushes = @ + 1]

\* navigateTo that leaves an open product view open
navigateTo_keepProduct(c, target) ==
    pushNavState([c EXCEPT !.activeTab = target], Tab(target))

\* navigateTo(target), target a string
navigateTo(c, target) ==
    pushNavState([c EXCEPT !.activeTab = target, !.selectedProduct = NoProduct],
                 Tab(target))

\* logout that resets the stack to the home entry under the entry on top
handleLogout_keepTop(c) ==
    [c EXCEPT !.isLoggedIn = FALSE,
              !.isAdmin = FALSE,
              !.isAffiliate = FALSE,
              !.showCMS = FALSE,
              !.activeTab = "home",
              !.affiliateActiveTab = "home",
              !.navStack = <<Home, c.navStack[Len(c.navStack)]>>]

\* logout without the reset of the stack
handleLogout_keepStack(c) ==
    [c EXCEPT !.isLoggedIn = FALSE,
              !.isAdmin = FALSE,
              !.isAffiliate = FALSE,
              !.showCMS = FALSE,
              !.activeTab = "home",
              !.affiliateActiveTab = "home"]

handleLogout(c) ==
    [c EXCEPT !.isLoggedIn = FALSE,
              !.isAdmin = FALSE,
              !.isAffiliate = FALSE,
              !.showCMS = FALSE,
              !.activeTab = "home",
              !.affiliateActiveTab = "home",
              !.navStack = <<Home>>]

\* YES that leaves exitConfirmationShownRef set
handleExitConfirm_keepShown(c) ==
    historyBack(
        [c EXCEPT !.showExitConfirmation = FALSE,
                  !.allowExitRef = TRUE])

\* YES that calls history.back() before it arms the exit
handleExitConfirm_backFirst(c) ==
    [historyBack(
        [c EXCEPT !.exitConfirmationShownRef = FALSE,
                  !.showExitConfirmation = FALSE])
       EXCEPT !.allowExitRef = TRUE]

handleExitConfirm(c) ==
    historyBack(
        [c EXCEPT !.exitConfirmationShownRef = FALSE,
                  !.showExitConfirmation = FALSE,
                  !.allowExitRef = TRUE])

\* NO that acts only while the confirmation is showing
handleExitCancel_guarded(c) ==
    IF c.exitConfirmationShownRef
    THEN [c EXCEPT !.exitConfirmationShownRef = FALSE,
                   !.showExitConfirmation = FALSE,
                   !.history = pushState(@, NullState, locationHref(@)),
                   !.last.traps = @ + 1,
                   !.last.pushes = @ + 1]
    ELSE c

\* NO without the trap push
handleExitCancel_noTrap(c) ==
    [c EXCEPT !.exitConfirmationShownRef = FALSE,
              !.showExitConfirmation = FALSE]

\* NO that clears the flag and leaves the dialog on screen
handleExitCancel_refOnly(c) ==
    trapCurrentPosition([c EXCEPT !.exitConfirmationShownRef = FALSE])

handleExitCancel(c) ==
    trapCurrentPosition(
        [c EXCEPT !.exitConfirmationShownRef = FALSE,
                  !.showExitConfirmation = FALSE])

\* -------------------------------------------------------------- effects
\* useEffect(..., [selectedProduct]): the address fragment follows the
\* product view, by a pushState of its own
selectedProductEffect(c) ==
    IF c.selectedProduct # NoProduct THEN
        IF c.historyThrows THEN renderError(c)
        ELSE [c EXCEPT !.history = pushState(@, NullState, ProductFragment(c.selectedProduct)),
                       !.last.pushes = @ + 1]
    ELSE IF startsWith(locationHash(c.history), "#product-") THEN
        IF c.historyThrows THEN renderError(c)
        ELSE [c EXCEPT !.history = pushState(@, NullState, "#"),
                       !.last.pushes = @ + 1]
    ELSE c

\* the effects that keep the refs current
refEffects(c) ==
    [c EXCEPT !.productsRef = c.products,
              !.isAdminRef = c.isAdmin,
              !.isAffiliateRef = c.isAffiliate]

\* parseInt of a string of the model: the value of its leading decimal
\* digits, NaN (here -1) when it has none
NaN == -1
Digits == <<"0", "1", "2", "3", "4", "5", "6", "7", "8", "9">>
IsDigit(ch) == \E d \in 1..10 : Digits[d] = ch
DigitValue(ch) == (CHOOSE d \in 1..10 : Digits[d] = ch) - 1
RECURSIVE parseDigits(_, _, _)
parseDigits(s, i, acc) ==
    IF i > Len(s) \/ ~IsDigit(SubSeq(s, i, i)) THEN acc
    ELSE parseDigits(s, i + 1, acc * 10 + DigitValue(SubSeq(s, i, i)))
parseInt(s) ==
    IF Len(s) = 0 \/ ~IsDigit(SubSeq(s, 1, 1)) THEN NaN ELSE parseDigits(s, 1, 0)

\* the bootstrap without its guard: it runs whenever its dependencies change
initialHashEffect_unguarded(c) ==
    LET hash == locationHash(c.history)
        productId == IF startsWith(hash, "#product-")
                     THEN parseInt(SubSeq(hash, Len("#product-") + 1, Len(hash)))
                     ELSE NaN
        c1 == IF productId \in c.products
              THEN [c EXCEPT !.selectedProduct = productId, !.activeTab = "home"]
              ELSE c
    IN [c1 EXCEPT !.initialHashChecked = TRUE, !.last.hashChecks = @ + 1]

\* useEffect(..., [products, initialHashChecked]): the #product-<id>
\* bootstrap, guarded by initialHashChecked
initialHashEffect(c) ==
    IF c.initialHashChecked THEN c
    ELSE
        LET hash == locationHash(c.history)
            productId == IF startsWith(hash, "#product-")
                         THEN parseInt(SubSeq(hash, Len("#product-") + 1, Len(hash)))
                         ELSE NaN
            c1 == IF productId \in c.products
                  THEN [c EXCEPT !.selectedProduct = productId, !.activeTab = "home"]
                  ELSE c
        IN [c1 EXCEPT !.initialHashChecked = TRUE, !.last.hashChecks = @ + 1]

\* the re-render after a task that started in state old: the effects whose
\* dependencies changed run, in the order of their declaration; none runs
\* once the application is unmounted
commit(old, c) ==
    IF ~c.loaded THEN c
    ELSE
        LET c1 == refEffects(c)
            c2 == IF c1.products # old.products
                     \/ c1.initialHashChecked # old.initialHashChecked
                  THEN initialHashEffect(c1) ELSE c1
        IN IF c1.selectedProduct # old.selectedProduct
           THEN selectedProductEffect(c2) ELSE c2

\* the registration that adds the listener twice
registerPopState_twice(c) ==
    LET c1 == [c EXCEPT !.mounted = TRUE, !.listeners = @ + 2]
    IN IF c1.history.entries[c1.history.index].state # NullState THEN c1
       ELSE IF c1.historyThrows THEN renderError(c1)
       ELSE [c1 EXCEPT !.history = replaceState(@, Home)]

\* useEffect(..., []): the popstate listener is registered and the entry the
\* page stands on gets the home state when it has none
registerPopState(c) ==
    LET c1 == [c EXCEPT !.mounted = TRUE, !.listeners = @ + 1]
    IN IF c1.history.entries[c1.history.index].state # NullState THEN c1
       ELSE IF c1.historyThrows THEN renderError(c1)
       ELSE [c1 EXCEPT !.history = replaceState(@, Home)]

\* The effects of the first render, in the order of their declaration; the
\* state updates of the bootstrap are applied by the re-render that follows,
\* whose effects see the new selectedProduct.
mountEffects(c) ==
    LET c1 == refEffects(c)
        c2 == initialHashEffect(c1)
        \* the effects of the first render still see selectedProduct = null
        c3 == [selectedProductEffect([c2 EXCEPT !.selectedProduct = NoProduct])
                 EXCEPT !.selectedProduct = c2.selectedProduct]
        c4 == IF c3.loaded THEN registerPopState(c3) ELSE c3
    IN commit(c, c4)

\* ------------------------------------------- the variant of src/script.js
\* useEffect(..., [selectedProduct]) of script.js
scriptJs_selectedProductEffect(c) ==
    IF c.selectedProduct # NoProduct THEN
        IF c.historyThrows THEN renderError(c)
        ELSE [c EXCEPT !.history = pushState(@, NullState, ProductFragment(c.selectedProduct)),
                       !.last.pushes = @ + 1]
    ELSE IF startsWith(locationHash(c.history), "#product-") THEN
        IF c.historyThrows THEN renderError(c)
        ELSE [c EXCEPT !.history = pushState(@, NullState, "#"),
                       !.last.pushes = @ + 1]
    ELSE c

\* setNavStack(currentStack => ...) of the popstate handler of script.js
scriptJs_navStackUpdater(c) ==
    IF Len(c.navStack) <= 1 THEN
        LET c1 == [c EXCEPT !.exitConfirmationShownRef = TRUE,
                            !.showExitConfirmation = TRUE,
                            !.last.branch = "confirm"]
        IN IF c1.historyThrows THEN renderError(c1)
           ELSE [c1 EXCEPT !.history = pushState(@, NullState, locationHref(@)),
                           !.last.traps = @ + 1,
                           !.last.pushes = @ + 1]
    ELSE
        LET newStack == SubSeq(c.navStack, 1, Len(c.navStack) - 1)
            prevState == newStack[Len(newStack)]
            c1 == [c EXCEPT !.navStack = newStack, !.last.branch = "pop"]
        IN IF prevState.type = "home" THEN
               [c1 EXCEPT !.activeTab = "home",
                          !.selectedProduct = NoProduct,
                          !.showCMS = FALSE,
                          !.affiliateActiveTab = IF c.isAffiliateRef THEN "home" ELSE @]
           ELSE IF prevState.type = "tab" THEN
               [c1 EXCEPT !.activeTab = prevState.value,
                          !.selectedProduct = NoProduct,
                          !.showCMS = FALSE]
           ELSE IF prevState.type = "product" THEN
               IF prevState.id \in c.productsRef
               THEN [c1 EXCEPT !.selectedProduct = prevState.id]
               ELSE [c1 EXCEPT !.selectedProduct = NoProduct, !.activeTab = "home"]
           ELSE IF prevState.type = "cms" THEN
               IF c.isAdminRef THEN [c1 EXCEPT !.showCMS = TRUE] ELSE c1
           ELSE IF prevState.type = "affiliate-tab" THEN
               IF c.isAffiliateRef THEN [c1 EXCEPT !.affiliateActiveTab = prevState.tab] ELSE c1
           ELSE c1

\* the popstate listener of script.js
scriptJs_handlePopState(c) ==
    IF c.allowExitRef THEN
        [c EXCEPT !.allowExitRef = FALSE, !.last.branch = "exit"]
    ELSE IF c.exitConfirmationShownRef THEN
        LET c1 == [c EXCEPT !.exitConfirmationShownRef = FALSE,
                            !.showExitConfirmation = FALSE,
                            !.last.branch = "cancel"]
        IN IF c1.historyThrows THEN thrown(c1)
           ELSE [c1 EXCEPT !.history = pushState(@, NullState, locationHref(@)),
                           !.last.traps = @ + 1,
                           !.last.pushes = @ + 1]
    ELSE scriptJs_navStackUpdater(c)

\* pushNavState(navState) of script.js
scriptJs_pushNavState(c, navState) ==
    LET c1 == [c EXCEPT !.navStack = Append(@, navState),
                        !.last.navPushes = @ + 1]
    IN IF c1.historyThrows THEN thrown(c1)
       ELSE [c1 EXCEPT !.history = pushState(@, navState, locationHref(@)),
                       !.last.pushes = @ + 1]

\* navigateTo of script.js that selects the tab and pushes nothing
scriptJs_navigateTo_noPush(c, target) ==
    [c EXCEPT !.activeTab = target, !.selectedProduct = NoProduct]

\* navigateTo(target) of script.js, target a string
scriptJs_navigateTo(c, target) ==
    scriptJs_pushNavState(
        [c EXCEPT !.activeTab = target, !.selectedProduct = NoProduct],
        [type |-> "tab", value |-> target, id |-> 0, tab |-> ""])

\* handleLogout of script.js
scriptJs_handleLogout(c) ==
    [c EXCEPT !.isLoggedIn = FALSE,
              !.isAdmin = FALSE,
              !.isAffiliate = FALSE,
              !.showCMS = FALSE,
              !.activeTab = "home",
              !.affiliateActiveTab = "home",
              !.navStack = <<[type |-> "home", value |-> "", id |-> 0, tab |-> ""]>>]

\* handleExitConfirm of script.js
scriptJs_handleExitConfirm(c) ==
    LET c1 == [c EXCEPT !.exitConfirmationShownRef = FALSE,
                        !.showExitConfirmation = FALSE,
                        !.allowExitRef = TRUE]
    IN IF c1.historyThrows THEN thrown(c1)
       ELSE [c1 EXCEPT !.pendingBack = @ + 1,
                       !.last.backs = @ + 1,
                       !.last.armedAtBack = c1.allowExitRef]

\* handleExitCancel of script.js
scriptJs_handleExitCancel(c) ==
    LET c1 == [c EXCEPT !.exitConfirmationShownRef = FALSE,
                        !.showExitConfirmation = FALSE]
    IN IF c1.historyThrows THEN thrown(c1)
       ELSE [c1 EXCEPT !.history = pushState(@, NullState, locationHref(@)),
                       !.last.traps = @ + 1,
                       !.last.pushes = @ + 1]

\* ----------------------------------------------------------------- Init
\* The page has just been loaded from another document: the session history
\* holds that document's entry and the entry of the page, which has no state.
Init ==
    /\ navStack = <<Home>>
    /\ allowExitRef = FALSE
    /\ exitConfirmationShownRef = FALSE
    /\ showExitConfirmation = FALSE
    /\ activeTab = "home"
    /\ selectedProduct = NoProduct
    /\ showCMS = FALSE
    /\ affiliateActiveTab = "home"
    /\ isLoggedIn = FALSE
    /\ isAdmin = FALSE
    /\ isAffiliate = FALSE
    /\ products = InitialProducts
    /\ productsRef = InitialProducts
    /\ isAdminRef = FALSE
    /\ isAffiliateRef = FALSE
    /\ initialHashChecked = FALSE
    /\ mounted = FALSE
    /\ \E f \in InitialFragments :
          history = [entries |-> <<HistoryEntry(NullState, "", FALSE),
                                   HistoryEntry(NullState, f, TRUE)>>,
                     index |-> 2]
    /\ pendingBack = 0
    /\ loaded = TRUE
    /\ listeners = 0
    /\ historyThrows = FALSE
    /\ last = Log("load")

\* -------------------------------------------------------------- actions
Start(op) == [State EXCEPT !.last = Log(op)]

\* the state c1 a handler produced from c0 is rendered and becomes the next
\* state, when it stays within the bounds
Run(c0, c1) ==
    LET c2 == commit(c0, c1)
    IN /\ Len(c2.history.entries) <= MaxHistory
       /\ Len(c2.navStack) <= MaxHistory
       /\ c2.pendingBack <= MaxPending
       /\ Apply(c2)

\* the popstate event is dispatched to the n listeners registered on window
RECURSIVE dispatchPopState(_, _)
dispatchPopState(c, n) ==
    IF n = 0 \/ ~c.loaded THEN c ELSE dispatchPopState(handlePopState(c), n - 1)

\* the browser has moved to the entry c.history points at: it leaves the page
\* when the entry is another document's, and fires popstate otherwise
Notify(c) ==
    IF ~c.history.entries[c.history.index].page
    THEN Apply([c EXCEPT !.loaded = FALSE, !.last.branch = "left"])
    ELSE Run(c, dispatchPopState(c, c.listeners))

Mount ==
    /\ loaded /\ ~mounted
    /\ LET c == mountEffects(Start("mount"))
       IN Len(c.history.entries) <= MaxHistory /\ Apply(c)

\* the user presses the browser's back button
BackPress ==
    /\ loaded /\ mounted
    /\ history.index > 1
    /\ Notify([Start("popstate") EXCEPT !.history = traverse(@, -1)])

\* the user presses the browser's forward button
ForwardPress ==
    /\ loaded /\ mounted
    /\ history.index < Len(history.entries)
    /\ Notify([Start("popstate") EXCEPT !.history = traverse(@, 1)])

\* the browser performs a traversal queued by history.back()
DeliverBack ==
    /\ loaded /\ mounted
    /\ pendingBack > 0
    /\ history.index > 1
    /\ Notify([Start("popstate") EXCEPT !.history = traverse(@, -1),
                                        !.pendingBack = @ - 1])

\* a tab of the bottom navigation is clicked; an affiliate sees the
\* dashboard in place of the pages and of the bottom navigation
NavigateTo(t) ==
    /\ loaded /\ mounted
    /\ ~isAffiliate
    /\ LET c == Start("navigateTo") IN Run(c, navigateTo(c, t))

\* a product card of the grid is clicked
OpenProduct(p) ==
    /\ loaded /\ mounted
    /\ ~isAffiliate
    /\ p \in products
    /\ LET c == Start("pushNavState")
       IN Run(c, pushNavState([c EXCEPT !.selectedProduct = p], Product(p)))

\* the administrator opens the CMS panel
OpenCms ==
    /\ loaded /\ mounted
    /\ isAdmin
    /\ LET c == Start("pushNavState")
       IN Run(c, pushNavState([c EXCEPT !.showCMS = TRUE], Cms))

\* an affiliate clicks a tab of the affiliate dashboard
OpenAffiliateTab(t) ==
    /\ loaded /\ mounted
    /\ isAffiliate
    /\ LET c == Start("pushNavState")
       IN Run(c, pushNavState([c EXCEPT !.affiliateActiveTab = t], AffiliateTab(t)))

\* the back arrow of the product detail view
ProductBackArrow ==
    /\ loaded /\ mounted
    /\ ~isAffiliate
    /\ selectedProduct # NoProduct
    /\ LET c == Start("historyBack") IN Run(c, historyBack(c))

\* "Back to Site" of the CMS panel
CmsBackToSite ==
    /\ loaded /\ mounted
    /\ ~isAffiliate
    /\ showCMS
    /\ LET c == Start("historyBack")
       IN Run(c, historyBack([c EXCEPT !.showCMS = FALSE]))

\* YES of the exit confirmation
ExitConfirm ==
    /\ loaded /\ mounted
    /\ showExitConfirmation
    /\ LET c == Start("confirmExit") IN Run(c, handleExitConfirm(c))

\* NO of the exit confirmation (or a click on its overlay)
ExitCancel ==
    /\ loaded /\ mounted
    /\ showExitConfirmation
    /\ LET c == Start("cancelExit") IN Run(c, handleExitCancel(c))

Logout ==
    /\ loaded /\ mounted
    /\ isLoggedIn
    /\ LET c == Start("logout") IN Run(c, handleLogout(c))

\* handleLogin with the administrator's or an active affiliate's credentials
Login(admin) ==
    /\ loaded /\ mounted
    /\ ~isLoggedIn
    /\ LET c == Start("session")
       IN Run(c, [c EXCEPT !.isLoggedIn = TRUE,
                           !.isAdmin = admin,
                           !.isAffiliate = ~admin])

\* "Go to Affiliate Dashboard" of the account page, for an administrator who
\* is a registered affiliate: the callback of its timer switches the role and
\* leaves navStack alone. The update does not come from a discrete event:
\* React commits its render and defers the passive effects, so the refs keep
\* their values until FlushPassiveEffects or the render of the next task.
GoToAffiliateDashboard ==
    /\ loaded /\ mounted
    /\ isAdmin
    /\ Apply([Start("session") EXCEPT !.isAffiliate = TRUE, !.isAdmin = FALSE])

\* the scheduler runs the passive effects a render has left pending
FlushPassiveEffects ==
    /\ loaded /\ mounted
    /\ refEffects(State) # State
    /\ Apply(refEffects(State))

\* deleteProduct(id), by the administrator
DeleteProduct(p) ==
    /\ loaded /\ mounted
    /\ isAdmin
    /\ p \in products
    /\ LET c == Start("session")
       IN Run(c, [c EXCEPT !.products = @ \ {p}])

Next ==
    \/ Mount
    \/ BackPress
    \/ ForwardPress
    \/ DeliverBack
    \/ \E t \in TabNames : NavigateTo(t)
    \/ \E p \in InitialProducts : OpenProduct(p)
    \/ OpenCms
    \/ \E t \in AffiliateTabNames : OpenAffiliateTab(t)
    \/ ProductBackArrow
    \/ CmsBackToSite
    \/ ExitConfirm
    \/ ExitCancel
    \/ Logout
    \/ \E admin \in BOOLEAN : Login(admin)
    \/ GoToAffiliateDashboard
    \/ FlushPassiveEffects
    \/ \E p \in InitialProducts : DeleteProduct(p)

Spec == Init /\ [][Next]_vars

\* window.history starts throwing on its calls (a browser that limits the
\* rate of pushState, a document that is not fully active); the model lets it
\* start once the first render is done, so that every later task meets it
HistoryAvailability ==
    /\ loaded /\ mounted
    /\ ~historyThrows
    /\ last.op = "mount"
    /\ Apply([State EXCEPT !.historyThrows = TRUE])

NextThrow == Next \/ HistoryAvailability

\* the application in a browser whose history mechanism may throw
SpecThrow == Init /\ [][NextThrow]_vars

\* DeliverBack is enabled: a traversal queued by history.back() is waiting
DeliverBackEnabled ==
    loaded /\ mounted /\ pendingBack > 0 /\ history.index > 1

\* the step is a DeliverBack step: the browser performed a queued traversal
DeliverBackStep ==
    last'.op = "popstate" /\ pendingBack' = pendingBack - 1

\* ExitConfirm or ExitCancel is enabled: the confirmation shows its buttons
\* (and the answer stays within the bounds)
ExitAnswerEnabled ==
    /\ loaded /\ mounted /\ showExitConfirmation
    /\ pendingBack < MaxPending \/ history.index < MaxHistory

\* the step is the user's answer to the confirmation, YES or NO
ExitAnswerStep ==
    last'.op \in {"confirmExit", "cancelExit"}

\* the application with a browser that performs every traversal history.back()
\* has queued, and a user who answers the exit confirmation while it shows:
\* weak fairness of DeliverBack and of ExitConfirm \/ ExitCancel, written
\* with their enabling conditions and their steps
SpecFair ==
    /\ Init /\ [][Next]_vars
    /\ ([]<>(~DeliverBackEnabled) \/ []<><<DeliverBackStep>>_vars)
    /\ ([]<>(~ExitAnswerEnabled) \/ []<><<ExitAnswerStep>>_vars)

\* ---------------------------------------------------------- properties
\* the step is the handling of a back/forward notification by the listener
Notified == last'.op = "popstate" /\ last'.branch # "left"

\* ExitGuard is Idle
Idle == ~allowExitRef /\ ~exitConfirmationShownRef

\* the step leaves the view state alone
ViewUnchanged ==
    /\ activeTab' = activeTab
    /\ selectedProduct' = selectedProduct
    /\ showCMS' = showCMS
    /\ affiliateActiveTab' = affiliateActiveTab

\* the top of a stack
Top(stack) == stack[Len(stack)]

\* C1: in every reachable state NavStack has at least one element and its
\* first element is Home.
C1_FloorIsHome == Len(navStack) >= 1 /\ navStack[1] = Home

\* C1 witness: a back notification has popped a deeper stack down to its floor.
C1_Witness ==
    /\ last.op = "popstate" /\ last.branch = "pop"
    /\ navStack = <<Home>>

\* C2: in every reachable state at most one of allowExit and
\* confirmationShowing is true.
C2_FlagsExclusive == ~(allowExitRef /\ exitConfirmationShownRef)

\* C2 witness: the exit is armed by YES, the confirmation having been shown.
C2_Witness ==
    /\ last.op = "confirmExit"
    /\ allowExitRef /\ ~exitConfirmationShownRef

\* C3: a notification handled in Idle with NavStack at its floor sets
\* confirmationShowing, shows the confirmation, pushes exactly one trap and
\* leaves NavStack unchanged.
C3_FloorShowsConfirmation ==
    [][ (Notified /\ Idle /\ Len(navStack) <= 1)
        => /\ exitConfirmationShownRef'
           /\ showExitConfirmation'
           /\ last'.traps = 1
           /\ navStack' = navStack ]_vars

\* C3 witness: the confirmation has just been raised by a notification at the
\* floor.
C3_Witness ==
    /\ last.op = "popstate" /\ last.branch = "confirm"
    /\ navStack = <<Home>>
    /\ showExitConfirmation /\ exitConfirmationShownRef

\* C4: confirmExit arms the exit before it calls history.back(), which it
\* calls exactly once; a notification handled while the exit is armed
\* disarms it and does nothing else: NavStack, the view, the confirmation
\* and the session history are as before.
C4_ConfirmArmsThenConsumed ==
    [][ /\ (last'.op = "confirmExit")
          => (allowExitRef' /\ last'.backs = 1 /\ last'.armedAtBack)
        /\ (Notified /\ allowExitRef)
          => /\ ~allowExitRef'
             /\ navStack' = navStack
             /\ ViewUnchanged
             /\ showExitConfirmation' = showExitConfirmation
             /\ exitConfirmationShownRef' = exitConfirmationShownRef
             /\ last'.traps = 0 /\ last'.pushes = 0 ]_vars

\* C4 witness: a notification has consumed the armed exit.
C4_Witness ==
    /\ last.op = "popstate" /\ last.branch = "exit"
    /\ ~allowExitRef

\* C5: when the back navigation that confirmExit queued is performed and its
\* notification consumed by the armed exit, the browser's current history
\* entry is no longer an entry of this page.
C5_ConfirmedExitLeavesPage ==
    [][ (Notified /\ allowExitRef /\ pendingBack' < pendingBack)
        => ~history'.entries[history'.index].page ]_vars

\* C6: cancelExit leaves both flags false, hides the confirmation, pushes
\* exactly one trap and leaves NavStack and the view unchanged.
C6_CancelReturnsToIdle ==
    [][ (last'.op = "cancelExit")
        => /\ ~allowExitRef' /\ ~exitConfirmationShownRef'
           /\ ~showExitConfirmation'
           /\ last'.traps = 1
           /\ navStack' = navStack
           /\ ViewUnchanged ]_vars

\* C6 witness: NO has just been answered and the controller is Idle.
C6_Witness ==
    /\ last.op = "cancelExit" /\ last.traps = 1
    /\ ~showExitConfirmation

\* C7: a notification handled while the confirmation is showing clears
\* confirmationShowing, hides the confirmation, pushes exactly one trap and
\* neither pops NavStack nor restores a view, whatever the length of NavStack.
C7_BackWhileShownCancels ==
    [][ (Notified /\ exitConfirmationShownRef /\ ~allowExitRef)
        => /\ ~exitConfirmationShownRef'
           /\ ~showExitConfirmation'
           /\ last'.traps = 1
           /\ navStack' = navStack
           /\ ViewUnchanged ]_vars

\* C7 witness: the implicit cancel has happened on a stack deeper than the
\* floor.
C7_Witness ==
    /\ last.op = "popstate" /\ last.branch = "cancel"
    /\ Len(navStack) > 1

\* C8: a notification handled in Idle with NavStack longer than one removes
\* exactly the last element and restores the view of the entry now on top:
\* the home tab for Home, the tab for Tab(name), the product for a
\* Product(id) of the catalog; from [Home, Tab(cart), Product(1)] it yields
\* [Home, Tab(cart)] with the cart tab selected and no product open.
C8_PopRestoresEntryBelow ==
    [][ (Notified /\ Idle /\ Len(navStack) > 1)
        => /\ navStack' = SubSeq(navStack, 1, Len(navStack) - 1)
           /\ Top(navStack').type = "home"
                => (activeTab' = "home" /\ selectedProduct' = NoProduct /\ ~showCMS')
           /\ Top(navStack').type = "tab"
                => (activeTab' = Top(navStack').value
                    /\ selectedProduct' = NoProduct /\ ~showCMS')
           /\ (Top(navStack').type = "product" /\ Top(navStack').id \in products)
                => selectedProduct' = Top(navStack').id
           /\ navStack = <<Home, Tab("cart"), Product(1)>>
                => (navStack' = <<Home, Tab("cart")>>
                    /\ activeTab' = "cart" /\ selectedProduct' = NoProduct) ]_vars

\* C8 witness: one back-press has taken [Home, Tab(cart), x] to
\* [Home, Tab(cart)] with the cart tab selected.
C8_Witness ==
    /\ last.op = "popstate" /\ last.branch = "pop"
    /\ navStack = <<Home, Tab("cart")>>
    /\ activeTab = "cart" /\ selectedProduct = NoProduct

\* C9: after a logout NavStack is [Home] and both ExitGuard flags are false.
C9_LogoutResetsAll ==
    (last.op = "logout")
        => (navStack = <<Home>> /\ ~allowExitRef /\ ~exitConfirmationShownRef)

\* C9 amended: a logout resets NavStack to [Home] and leaves both ExitGuard
\* flags and the confirmation as they were; fired in Idle it leaves the
\* controller Idle at [Home].
C9_LogoutResetsStack ==
    [][ (last'.op = "logout")
        => /\ navStack' = <<Home>>
           /\ allowExitRef' = allowExitRef
           /\ exitConfirmationShownRef' = exitConfirmationShownRef
           /\ showExitConfirmation' = showExitConfirmation ]_vars

\* C9 witness: a logout has reset the stack while the exit was armed.
C9_Witness ==
    /\ last.op = "logout"
    /\ navStack = <<Home>>
    /\ allowExitRef

\* C10: when a pop uncovers a Product(id) that is no longer in the catalog,
\* the home tab is selected, no product is open and NavStack has shrunk by
\* exactly one.
C10_MissingProductFallsBack ==
    [][ (/\ Notified /\ Idle /\ Len(navStack) > 1
         /\ navStack[Len(navStack) - 1].type = "product"
         /\ navStack[Len(navStack) - 1].id \notin products)
        => /\ navStack' = SubSeq(navStack, 1, Len(navStack) - 1)
           /\ activeTab' = "home"
           /\ selectedProduct' = NoProduct ]_vars

\* C10 witness: a pop has uncovered a product that was deleted, and the home
\* view is shown.
C10_Witness ==
    /\ last.op = "popstate" /\ last.branch = "pop"
    /\ Top(navStack).type = "product"
    /\ Top(navStack).id \notin products
    /\ activeTab = "home" /\ selectedProduct = NoProduct

\* the controller state of c, the observation of the task left out
Controller(c) ==
    [navStack |-> c.navStack, allowExitRef |-> c.allowExitRef,
     exitConfirmationShownRef |-> c.exitConfirmationShownRef,
     showExitConfirmation |-> c.showExitConfirmation,
     history |-> c.history]

\* C11: once cancelExit has been called, a second call in a row changes
\* nothing: flags, confirmation, NavStack and the session history stay as the
\* first call left them.
C11_CancelIdempotent ==
    (last.op = "cancelExit")
        => Controller(handleExitCancel(Start("cancelExit"))) = Controller(State)

\* C11 amended: a second cancelExit in a row leaves the flags, the
\* confirmation and NavStack as the first call left them and pushes one more
\* trap entry onto the session history.
C11_SecondCancelPushesTrap ==
    (last.op = "cancelExit")
        => LET c2 == handleExitCancel(Start("cancelExit"))
           IN /\ c2.navStack = navStack
              /\ c2.allowExitRef = allowExitRef
              /\ c2.exitConfirmationShownRef = exitConfirmationShownRef
              /\ c2.showExitConfirmation = showExitConfirmation
              /\ c2.last.traps = 1
              /\ c2.history.index = history.index + 1
              /\ Len(c2.history.entries) = history.index + 1
              /\ SubSeq(c2.history.entries, 1, history.index)
                     = SubSeq(history.entries, 1, history.index)

\* C11 witness: cancelExit has just been called, the controller is Idle and
\* the trap it pushed is the current entry.
C11_Witness ==
    /\ last.op = "cancelExit"
    /\ Idle /\ ~showExitConfirmation
    /\ history.entries[history.index].state = NullState
    /\ history.index = Len(history.entries)

\* C12: a task that calls pushNavState appends one entry to NavStack, the
\* entries below unchanged, and the call records one new history entry, right
\* after the position the page stood on, whose state is the entry appended and
\* whose address is the address the page had; a task that leaves the product
\* view alone records no other entry.
C12_PushAppendsAndRecords ==
    [][(last'.navPushes > 0) =>
          /\ last'.navPushes = 1
          /\ Len(navStack') = Len(navStack) + 1
          /\ SubSeq(navStack', 1, Len(navStack)) = navStack
          /\ Len(history'.entries) > history.index
          /\ history'.entries[history.index + 1]
                 = HistoryEntry(Top(navStack'), locationHref(history), TRUE)
          /\ SubSeq(history'.entries, 1, history.index)
                 = SubSeq(history.entries, 1, history.index)
          /\ (selectedProduct' = selectedProduct =>
                 /\ history'.index = history.index + 1
                 /\ Len(history'.entries) = history.index + 1)]_vars

\* C12 witness: pushNavState(Cms) has run on top of a longer stack and its
\* entry is the current history entry.
C12_Witness ==
    /\ last.op = "pushNavState" /\ last.navPushes = 1 /\ last.pushes = 1
    /\ Len(navStack) > 2
    /\ Top(navStack) = Cms
    /\ history.entries[history.index].state = Cms

\* C13: every history entry a task pushes is the push of a pushNavState call
\* or a trap push, so the pushes that are not traps are as many as the
\* entries appended to NavStack.
C13_PushesAreNavOrTrap ==
    last.pushes = last.navPushes + last.traps

\* C14: navigateTo(tabName) closes the product view, selects the tab and
\* calls pushNavState once: NavStack is the stack before with Tab(tabName)
\* appended, tabName being the tab now selected.
C14_NavigateToPushesTab ==
    [][(last'.op = "navigateTo") =>
          /\ selectedProduct' = NoProduct
          /\ activeTab' \in TabNames
          /\ navStack' = Append(navStack, Tab(activeTab'))
          /\ last'.navPushes = 1
          /\ history'.entries[history.index + 1].state = Tab(activeTab')]_vars

\* C14 witness: navigateTo has run from an open product view, which it
\* closed (the second push is the one that clears the address fragment).
C14_Witness ==
    /\ last.op = "navigateTo" /\ last.pushes = 2
    /\ selectedProduct = NoProduct
    /\ Top(navStack) = Tab(activeTab)

\* C15: a back notification that pops NavStack pushes no history entry,
\* whatever the entry popped and the entry restored.
C15_PopPushesNothing ==
    [][(Notified /\ last'.branch = "pop") => last'.pushes = 0]_vars

\* C16: the address fragment is #product-<id> exactly when the top of
\* NavStack is Product(id) and product id is the view shown; otherwise the
\* fragment is empty or the bare "#".
C16_FragmentFollowsTop ==
    (mounted /\ loaded) =>
        /\ \A id \in InitialProducts :
               (locationHash(history) = ProductFragment(id))
                   <=> (Top(navStack) = Product(id) /\ selectedProduct = id)
        /\ (\A id \in InitialProducts : locationHash(history) # ProductFragment(id))
               => locationHash(history) \in {"", "#"}

\* C18: startup leaves the session history as long as it was: the entry the
\* page was loaded on is still the current and the last entry, it now carries
\* Home, and nothing was pushed, whatever the address the page was loaded at.
C18_StartupReplacesInPlace ==
    (last.op = "mount") =>
        /\ last.pushes = 0
        /\ Len(history.entries) = 2
        /\ history.index = 2
        /\ history.entries[2].state = Home

\* C17: the #product-<id> bootstrap runs past its guard once, in the task of
\* the first render; once initialHashChecked is set it stays set and no later
\* task runs the bootstrap again, and a task that changes the session or the
\* catalog opens no product.
C17_BootstrapOnce ==
    [][/\ (~initialHashChecked /\ last'.op = "mount") =>
              (last'.hashChecks = 1 /\ initialHashChecked')
       /\ initialHashChecked => (initialHashChecked' /\ last'.hashChecks = 0)
       /\ (last'.op = "session") => selectedProduct' = selectedProduct]_vars

\* C17 witness: after a bootstrap on a #product- address, the catalog has
\* changed while the address still names a product, and the bootstrap has not
\* run again.
C17_Witness ==
    /\ last.op = "session" /\ last.hashChecks = 0
    /\ initialHashChecked
    /\ products # InitialProducts
    /\ startsWith(locationHash(history), "#product-")

\* C19: no task ends with an exception that nothing caught, even while the
\* history mechanism throws.
C19_NoUncaughtException ==
    ~last.uncaught

\* the number of ExitGuard flags whose value the step changes
FlagTransitions ==
    (IF allowExitRef' # allowExitRef THEN 1 ELSE 0)
        + (IF exitConfirmationShownRef' # exitConfirmationShownRef THEN 1 ELSE 0)

\* C20: one popstate listener is registered from the first render on, none
\* before, and the handling of a back/forward notification pops at most one
\* entry of NavStack, pushes at most one trap and changes at most one flag.
C20_OneListener ==
    [][/\ listeners' = (IF mounted' THEN 1 ELSE 0)
       /\ Notified =>
              /\ Len(navStack') >= Len(navStack) - 1
              /\ last'.traps <= 1
              /\ FlagTransitions <= 1]_vars

\* C20 witness: a notification has been handled by the one listener, which
\* popped NavStack.
C20_Witness ==
    /\ listeners = 1
    /\ last.op = "popstate" /\ last.branch = "pop"
    /\ Len(navStack) > 1

C24_HomeAndTabRestore ==
    [][(Notified /\ last'.branch = "pop"
            /\ Top(navStack').type \in {"home", "tab"}) =>
          /\ activeTab' = (IF Top(navStack').type = "home"
                           THEN "home" ELSE Top(navStack').value)
          /\ selectedProduct' = NoProduct
          /\ ~showCMS']_vars

\* C24 witness: NavStack has been popped onto Home from an open product view,
\* which the restoration closed (the push is the one that clears the
\* #product- fragment).
C24_Witness ==
    /\ last.op = "popstate" /\ last.branch = "pop" /\ last.pushes = 1
    /\ Top(navStack) = Home
    /\ activeTab = "home" /\ selectedProduct = NoProduct /\ ~showCMS

\* the state payloads a history entry can carry
Payloads == {NullState, Home, Cms} \cup {Product(p) : p \in InitialProducts}

\* c with the state payload of its current history entry replaced by p
WithPayload(c, p) ==
    [c EXCEPT !.history.entries[c.history.index].state = p]

\* the state in which the handling of a notification received in c ends,
\* the state payloads of the session history left out
Outcome(c) ==
    LET c1 == commit(c, dispatchPopState(c, c.listeners))
    IN [c1 EXCEPT !.history =
           [index |-> @.index,
            entries |-> [i \in 1..Len(@.entries) |->
                            [frag |-> @.entries[i].frag, page |-> @.entries[i].page]]]]

\* C25: in every state, a back or a forward notification whose entry belongs
\* to the page ends in the same state whatever state payload the entry
\* carries: null, the entry on top of NavStack or any other.
C25_PayloadIgnored ==
    (mounted /\ loaded) =>
        \A delta \in {-1, 1} :
            LET i == history.index + delta
            IN (i >= 1 /\ i <= Len(history.entries) /\ history.entries[i].page) =>
                  LET c == [Start("popstate") EXCEPT !.history = traverse(@, delta)]
                  IN Cardinality({Outcome(WithPayload(c, p)) : p \in Payloads}) = 1

\* C25 witness: a notification has been handled whose entry carries a state
\* payload that is not the entry on top of NavStack, before or after the pop.
C25_Witness ==
    /\ last.op = "popstate" /\ last.branch = "pop"
    /\ history.entries[history.index].state.type = "product"
    /\ Top(navStack) = Home

\* C26: every navigation through pushNavState or navigateTo appends exactly
\* one entry to NavStack and leaves the entries below as they were, also when
\* the entry equals the one on top; every pop removes exactly the top entry,
\* so n identical navigations take n back notifications to undo.
C26_NoDeduplication ==
    [][/\ (last'.op \in {"pushNavState", "navigateTo"}) =>
             /\ Len(navStack') = Len(navStack) + 1
             /\ SubSeq(navStack', 1, Len(navStack)) = navStack
       /\ (Notified /\ last'.branch = "pop") =>
             navStack' = SubSeq(navStack, 1, Len(navStack) - 1)]_vars

\* C26 witness: a navigation has pushed a second copy of the entry that was
\* on top of NavStack.
C26_Witness ==
    /\ last.op = "navigateTo"
    /\ Len(navStack) >= 3
    /\ navStack[Len(navStack)] = navStack[Len(navStack) - 1]
    /\ navStack[Len(navStack)] = Tab("cart")

\* the last task cancelled an exit confirmation: NO was clicked, or a
\* notification arrived while the confirmation was showing
JustCancelled ==
    \/ last.op = "cancelExit"
    \/ last.op = "popstate" /\ last.branch = "cancel"

\* C27: after an exit confirmation is cancelled (by cancelExit or by a
\* back-press while it shows) with NavStack at its floor, the entry behind
\* the current one belongs to the page, and the back-press that comes next
\* shows the exit confirmation again: it neither leaves the page nor pops.
C27_CancelRetriggers ==
    (loaded /\ mounted /\ JustCancelled /\ Len(navStack) = 1) =>
        /\ history.index > 1
        /\ history.entries[history.index - 1].page
        /\ LET c == [Start("popstate") EXCEPT !.history = traverse(@, -1)]
               c1 == commit(c, dispatchPopState(c, c.listeners))
           IN /\ c1.loaded
              /\ c1.last.branch = "confirm"
              /\ c1.showExitConfirmation /\ c1.exitConfirmationShownRef
              /\ ~c1.allowExitRef
              /\ c1.navStack = navStack

\* C27 witness: a back-press has cancelled the confirmation with NavStack at
\* its floor, and the trap it pushed sits right above the first entry of the
\* page.
C27_Witness ==
    /\ loaded /\ mounted
    /\ last.op = "popstate" /\ last.branch = "cancel" /\ last.traps = 1
    /\ Len(navStack) = 1
    /\ history.index = 3
    /\ ~history.entries[1].page

\* C28: whenever allowExit or confirmationShowing is set, a state with both
\* flags clear is reached later on, provided that the browser delivers the
\* traversals that were queued and the user answers the confirmation.
C28_GuardReturnsToIdle == (allowExitRef \/ exitConfirmationShownRef) ~> Idle

\* C28 witness: the exit armed by YES has been consumed by the notification
\* of the traversal YES had queued, and ExitGuard is Idle again.
C28_Witness ==
    /\ loaded
    /\ last.op = "popstate" /\ last.branch = "exit"
    /\ pendingBack = 0
    /\ Idle /\ ~showExitConfirmation

\* C29: the browser leaves the page through a back navigation only when the
\* exit is armed, that is after the user answered YES to the exit
\* confirmation for that navigation.
C29_NoExitWithoutYes ==
    [][(last'.op = "popstate" /\ last'.branch = "left") => allowExitRef]_vars

\* C30: in every reachable state the exit confirmation is on screen exactly
\* when the confirmationShowing flag is set.
C30_DialogFollowsFlag == showExitConfirmation = exitConfirmationShownRef

\* C30 witness: the confirmation is on screen with its flag set, in the
\* session of a logged-in user, right after the notification that raised it.
C30_Witness ==
    /\ loaded /\ isLoggedIn
    /\ last.op = "popstate" /\ last.branch = "confirm"
    /\ showExitConfirmation /\ exitConfirmationShownRef

\* C31: when the traversal queued by the back arrow of an open product view
\* is delivered with ExitGuard Idle, the listener pops NavStack to the entry
\* below, and it does not raise the exit confirmation over a product that
\* stays displayed; also for a product opened by the #product-<id> bootstrap.
C31_BackArrowClosesProduct ==
    [][(Notified /\ DeliverBackStep /\ Idle /\ selectedProduct # NoProduct) =>
          /\ last'.branch = "pop"
          /\ navStack' = slice(navStack)
          /\ ~(showExitConfirmation' /\ selectedProduct' # NoProduct)]_vars

\* C32: pushNavState and navigateTo leave allowExit, confirmationShowing and
\* the visibility of the confirmation as they were; a notification that
\* arrives while the confirmation shows, an entry pushed over it or not,
\* cancels the confirmation and leaves NavStack as it was.
C32_PushKeepsGuard ==
    [][/\ (last'.op \in {"pushNavState", "navigateTo"}) =>
             /\ allowExitRef' = allowExitRef
             /\ exitConfirmationShownRef' = exitConfirmationShownRef
             /\ showExitConfirmation' = showExitConfirmation
       /\ (Notified /\ exitConfirmationShownRef /\ ~allowExitRef) =>
             /\ last'.branch = "cancel"
             /\ navStack' = navStack
             /\ ~exitConfirmationShownRef' /\ ~showExitConfirmation']_vars

\* C32 witness: a notification has cancelled the confirmation and left on
\* NavStack the entry pushed while the confirmation was showing (the
\* confirmation is only raised with NavStack at its floor).
C32_Witness ==
    /\ last.op = "popstate" /\ last.branch = "cancel"
    /\ Len(navStack) = 2
    /\ ~showExitConfirmation /\ ~exitConfirmationShownRef

C34_BackAfterLogoutConfirms ==
    [][(Notified /\ last.op = "logout" /\ Idle) =>
          /\ navStack = <<Home>>
          /\ last'.branch = "confirm"
          /\ showExitConfirmation' /\ exitConfirmationShownRef'
          /\ navStack' = <<Home>>]_vars

\* C34 witness: after a logout, a notification landed on the entry the
\* administrator had pushed for the CMS, and it raised the exit confirmation
\* with NavStack at [Home].
C34_Witness ==
    /\ last.op = "popstate" /\ last.branch = "confirm"
    /\ ~isLoggedIn
    /\ navStack = <<Home>>
    /\ showExitConfirmation
    /\ history.index > 2
    /\ history.entries[history.index - 1].state = Cms

\* C35: the listener does not tell a forward notification from a back one:
\* in every state with ExitGuard Idle, NavStack longer than one and an entry
\* of the page ahead in the history, the forward notification pops NavStack
\* by one and restores the entry below, as the back notification does; after
\* a back, a forward leaves NavStack two entries shorter than before the back.
C35_ForwardPopsLikeBack ==
    (/\ loaded /\ mounted /\ Idle
     /\ Len(navStack) > 1
     /\ history.index < Len(history.entries)) =>
        LET c == [Start("popstate") EXCEPT !.history = traverse(@, 1)]
            fwd == dispatchPopState(c, c.listeners)
        IN /\ fwd.last.branch = "pop"
           /\ fwd.navStack = slice(navStack)
           /\ Controller(fwd) = Controller(navStackUpdater(c))
           /\ (history.index > 1 /\ history.entries[history.index - 1].page) =>
                 LET b == [Start("popstate") EXCEPT !.history = traverse(@, -1)]
                     back == dispatchPopState(b, b.listeners)
                 IN /\ back.navStack = fwd.navStack
                    /\ back.last.branch = fwd.last.branch
                    /\ back.activeTab = fwd.activeTab
                    /\ back.selectedProduct = fwd.selectedProduct
                    /\ back.showCMS = fwd.showCMS

\* C35 witness: a back notification has popped NavStack, the entry it left
\* is still ahead in the history and NavStack is longer than one: the
\* forward notification that can come now pops a second entry.
C35_Witness ==
    /\ loaded /\ mounted /\ Idle
    /\ last.op = "popstate" /\ last.branch = "pop"
    /\ Len(navStack) > 1
    /\ history.index < Len(history.entries)
    /\ history.entries[history.index + 1].state.type = "tab"

\* the entries a navigation can push
NavEntries ==
    {Home, Cms} \cup {Tab(t) : t \in TabNames}
                \cup {Product(p) : p \in InitialProducts}
                \cup {AffiliateTab(t) : t \in AffiliateTabNames}

\* C36: in every reachable state, each operation of the controller as
\* written in src/script.js ends in the same state as the operation of
\* src/unnamed/part_000: the same NavStack, ExitGuard flags, confirmation
\* visibility, view and physical history. Started together and run on the
\* same operations, the two variants therefore stay equal at every step.
C36_VariantsAgree ==
    (loaded /\ mounted) =>
        /\ \A delta \in {-1, 1} :
              LET i == history.index + delta
              IN (i >= 1 /\ i <= Len(history.entries) /\ history.entries[i].page) =>
                    LET c == [Start("popstate") EXCEPT !.history = traverse(@, delta)]
                    IN scriptJs_handlePopState(c) = handlePopState(c)
        /\ \A e \in NavEntries :
              scriptJs_pushNavState(Start("pushNavState"), e)
                  = pushNavState(Start("pushNavState"), e)
        /\ \A t \in TabNames :
              scriptJs_navigateTo(Start("navigateTo"), t) = navigateTo(Start("navigateTo"), t)
        /\ scriptJs_handleExitConfirm(Start("confirmExit")) = handleExitConfirm(Start("confirmExit"))
        /\ scriptJs_handleExitCancel(Start("cancelExit")) = handleExitCancel(Start("cancelExit"))
        /\ scriptJs_handleLogout(Start("logout")) = handleLogout(Start("logout"))
        /\ scriptJs_selectedProductEffect(State) = selectedProductEffect(State)

\* C36 witness: a state the comparison covers in which a logged-in session
\* has navigated and a notification has popped NavStack, with entries of the
\* page behind and ahead in the history.
C36_Witness ==
    /\ loaded /\ mounted /\ isLoggedIn
    /\ last.op = "popstate" /\ last.branch = "pop"
    /\ Len(navStack) >= 2
    /\ history.index > 2
    /\ history.index < Len(history.entries)

====
